---------------------------- MODULE Spec2Model ----------------------------
(***************************************************************************)
(* A model of node-scad-parser: the moo token table (nearley/tokens), the  *)
(* SCADParser class (src/index.js), the AST node classes (ast/nodes) and   *)
(* Location (ast/index.js).                                                *)
(*                                                                         *)
(* A source text is a sequence of one-character strings.  Offsets are      *)
(* 0-based as in JavaScript; lines and columns are 1-based as in moo.      *)
(***************************************************************************)
EXTENDS Integers, Sequences, FiniteSets, TLC

(***************************************************************************)
(* Characters and character classes of the token regular expressions.     *)
(***************************************************************************)
EOF == "<eof>"

Lower == {"a", "b", "c", "d", "e", "f", "g", "h", "i", "j", "k", "l", "m",
          "n", "o", "p", "q", "r", "s", "t", "u", "v", "w", "x", "y", "z"}

Upper == {"A", "B", "C", "D", "E", "F", "G", "H", "I", "J", "K", "L", "M",
          "N", "O", "P", "Q", "R", "S", "T", "U", "V", "W", "X", "Y", "Z"}

Digit == {"0", "1", "2", "3", "4", "5", "6", "7", "8", "9"}

\* [A-Za-z]
Letter == Lower \cup Upper

\* [A-Za-z_$]
IdentStart == Letter \cup {"_", "$"}

\* [A-Za-z0-9_]
IdentPart == Letter \cup Digit \cup {"_"}

\* [!#\*\%]
Modifiers == {"!", "#", "*", "%"}

\* [ \t]
Blank == {" ", "\t"}

\* \s
WhiteSpace == {" ", "\t", "\n", "\r"}

\* the characters "." does not match
LineTerminators == {"\n", "\r"}

Max(S) == CHOOSE m \in S : \A k \in S : k <= m

Min(S) == CHOOSE m \in S : \A k \in S : m <= k

\* the character at 0-based offset i, EOF past the end
At(s, i) == IF i >= 0 /\ i < Len(s) THEN s[i + 1] ELSE EOF

\* s.slice(from, to)
Slice(s, from, to) == SubSeq(s, from + 1, to)

\* the offset after the longest run of characters of C starting at i (C*)
RECURSIVE Span(_, _, _)
Span(s, i, C) == IF At(s, i) \in C THEN Span(s, i + 1, C) ELSE i

\* the offset after the longest run of characters outside X starting at i
RECURSIVE SpanNot(_, _, _)
SpanNot(s, i, X) ==
    IF At(s, i) = EOF \/ At(s, i) \in X THEN i ELSE SpanNot(s, i + 1, X)

\* the literal lit stands at offset i
StartsWith(s, i, lit) == \A k \in 1..Len(lit) : At(s, i + k - 1) = lit[k]

\* number of "\n" in t, and the offset just after the last one
CountNL(t) == Cardinality({k \in 1..Len(t) : t[k] = "\n"})

LastNL(t) == Max({0} \cup {k \in 1..Len(t) : t[k] = "\n"})

(***************************************************************************)
(* The token table.  A match is [size, value]: the length of the matched   *)
(* text and the token's value (the capture group when the rule has one,    *)
(* the matched text otherwise); size 0 is no match (no rule matches the    *)
(* empty string).                                                          *)
(***************************************************************************)
NoMatch == [size |-> 0, value |-> <<>>]

Matched(s, i, to, from, upto) ==
    [size |-> to - i, value |-> Slice(s, from, upto)]

\* /include\s*<(.+)>/ and /use\s*<(.+)>/ : ".+" is greedy, so the match
\* ends at the last ">" of the line
IncludeRule(kw, s, i) ==
    LET a       == Span(s, i + Len(kw), WhiteSpace)
        lineEnd == SpanNot(s, a + 1, LineTerminators)
        closers == {p \in (a + 2)..(lineEnd - 1) : At(s, p) = ">"}
    IN  IF StartsWith(s, i, kw) /\ At(s, a) = "<" /\ closers # {}
        THEN Matched(s, i, Max(closers) + 1, a + 1, Max(closers))
        ELSE NoMatch

\* /module\s*([A-Za-z_$][A-Za-z0-9_]*)\s*\(/ and the same with "function"
DefinitionRule(kw, s, i) ==
    LET a == Span(s, i + Len(kw), WhiteSpace)
        b == Span(s, a + 1, IdentPart)
        c == Span(s, b, WhiteSpace)
    IN  IF StartsWith(s, i, kw) /\ At(s, a) \in IdentStart /\ At(s, c) = "("
        THEN Matched(s, i, c + 1, a, b)
        ELSE NoMatch

\* /([!#\*\%]?[A-Za-z][A-Za-z0-9_]*)\s*\(/
actionCall(s, i) ==
    LET a == IF At(s, i) \in Modifiers THEN i + 1 ELSE i
        b == Span(s, a + 1, IdentPart)
        c == Span(s, b, WhiteSpace)
    IN  IF At(s, a) \in Letter /\ At(s, c) = "("
        THEN Matched(s, i, c + 1, i, b)
        ELSE NoMatch

\* /\/\/(.*)\n/
comment(s, i) ==
    LET e == SpanNot(s, i + 2, LineTerminators)
    IN  IF StartsWith(s, i, <<"/", "/">>) /\ At(s, e) = "\n"
        THEN Matched(s, i, e + 1, i + 2, e)
        ELSE NoMatch

\* /\/\*([^]*?)\*\// : lazy, so the match ends at the first "*/"
mlComment(s, i) ==
    LET closers == {p \in (i + 2)..(Len(s) - 2) : StartsWith(s, p, <<"*", "/">>)}
    IN  IF StartsWith(s, i, <<"/", "*">>) /\ closers # {}
        THEN Matched(s, i, Min(closers) + 2, i + 2, Min(closers))
        ELSE NoMatch

\* a literal, or an ordered alternation of literals: the first that matches
RECURSIVE Alternation(_, _, _)
Alternation(alts, s, i) ==
    IF alts = <<>> THEN NoMatch
    ELSE IF StartsWith(s, i, Head(alts))
         THEN Matched(s, i, i + Len(Head(alts)), i, i + Len(Head(alts)))
         ELSE Alternation(Tail(alts), s, i)

\* bool: ['true', 'false'], which moo sorts longest first
bool == << <<"f", "a", "l", "s", "e">>, <<"t", "r", "u", "e">> >>

\* /\*|\/|\%/
operator1 == << <<"*">>, <<"/">>, <<"%">> >>

\* /\+|\-/
operator2 == << <<"+">>, <<"-">> >>

\* /<|<=|==|!=|>=|>|&&|\|\|/
operator3 == << <<"<">>, <<"<", "=">>, <<"=", "=">>, <<"!", "=">>,
                <<">", "=">>, <<">">>, <<"&", "&">>, <<"|", "|">> >>

\* /[A-Za-z_$][A-Za-z0-9_]*/
identifier(s, i) ==
    IF At(s, i) \in IdentStart
    THEN Matched(s, i, Span(s, i + 1, IdentPart), i, Span(s, i + 1, IdentPart))
    ELSE NoMatch

\* /"([^"]*)"/
string(s, i) ==
    LET e == SpanNot(s, i + 1, {"\""})
    IN  IF At(s, i) = "\"" /\ At(s, e) = "\""
        THEN Matched(s, i, e + 1, i + 1, e)
        ELSE NoMatch

\* /([0-9]+(?:\.?[0-9]*(?:[eE][-+]?[0-9]+)?)?)/
float(s, i) ==
    LET a == Span(s, i, Digit)
        b == IF At(s, a) = "." THEN a + 1 ELSE a
        c == Span(s, b, Digit)
        d == IF At(s, c + 1) \in {"-", "+"} THEN c + 2 ELSE c + 1
        e == IF At(s, c) \in {"e", "E"} /\ At(s, d) \in Digit
             THEN Span(s, d, Digit) ELSE c
    IN  IF At(s, i) \in Digit THEN Matched(s, i, e, i, e) ELSE NoMatch

\* /[ \t]*;/
eos(s, i) ==
    LET a == Span(s, i, Blank)
    IN  IF At(s, a) = ";" THEN Matched(s, i, a + 1, i, a + 1) ELSE NoMatch

\* /[ \t]+/
whitespace(s, i) ==
    LET a == Span(s, i, Blank)
    IN  IF a > i THEN Matched(s, i, a, i, a) ELSE NoMatch

\* the rules in the order of the table: moo joins them into one alternation,
\* so the first rule that matches at the offset wins
tokens ==
    <<"include", "use", "moduleDefinition", "functionDefinition", "actionCall",
      "comment", "mlComment", "comma", "seperator", "lvect", "rvect",
      "lparent", "rparent", "lblock", "rblock", "bool", "operator1",
      "operator2", "operator3", "assign", "identifier", "string", "float",
      "eol", "eos", "whitespace">>

\* the rules declared with lineBreaks: true
lineBreakRules ==
    {"include", "use", "moduleDefinition", "functionDefinition", "actionCall",
     "comment", "mlComment", "eol"}

Rule(name, s, i) ==
    CASE name = "include" -> IncludeRule(<<"i", "n", "c", "l", "u", "d", "e">>, s, i)
      [] name = "use" -> IncludeRule(<<"u", "s", "e">>, s, i)
      [] name = "moduleDefinition" ->
            DefinitionRule(<<"m", "o", "d", "u", "l", "e">>, s, i)
      [] name = "functionDefinition" ->
            DefinitionRule(<<"f", "u", "n", "c", "t", "i", "o", "n">>, s, i)
      [] name = "actionCall" -> actionCall(s, i)
      [] name = "comment" -> comment(s, i)
      [] name = "mlComment" -> mlComment(s, i)
      [] name = "comma" -> Alternation(<< <<",">> >>, s, i)
      [] name = "seperator" -> Alternation(<< <<":">> >>, s, i)
      [] name = "lvect" -> Alternation(<< <<"[">> >>, s, i)
      [] name = "rvect" -> Alternation(<< <<"]">> >>, s, i)
      [] name = "lparent" -> Alternation(<< <<"(">> >>, s, i)
      [] name = "rparent" -> Alternation(<< <<")">> >>, s, i)
      [] name = "lblock" -> Alternation(<< <<"{">> >>, s, i)
      [] name = "rblock" -> Alternation(<< <<"}">> >>, s, i)
      [] name = "bool" -> Alternation(bool, s, i)
      [] name = "operator1" -> Alternation(operator1, s, i)
      [] name = "operator2" -> Alternation(operator2, s, i)
      [] name = "operator3" -> Alternation(operator3, s, i)
      [] name = "assign" -> Alternation(<< <<"=">> >>, s, i)
      [] name = "identifier" -> identifier(s, i)
      [] name = "string" -> string(s, i)
      [] name = "float" -> float(s, i)
      [] name = "eol" -> Alternation(<< <<"\n">> >>, s, i)
      [] name = "eos" -> eos(s, i)
      [] name = "whitespace" -> whitespace(s, i)

\* the first rule of the table, from the k-th on, that matches at offset i;
\* "LexerError" (moo.error) when none does
RECURSIVE FirstRule(_, _, _)
FirstRule(k, s, i) ==
    IF k > Len(tokens) THEN "LexerError"
    ELSE IF Rule(tokens[k], s, i).size > 0 THEN tokens[k]
         ELSE FirstRule(k + 1, s, i)

(***************************************************************************)
(* The lexer: moo.compile(tokens), one per module.  Its state is the       *)
(* buffer and the position in it.                                          *)
(***************************************************************************)
\* moo.compile(tokens): the lexer before its first reset
compile == [buffer |-> <<>>, index |-> 0, line |-> 1, col |-> 1]

\* a reset that rewinds the buffer but keeps counting lines and columns
resetBuffer(lx, code) == [lx EXCEPT !.buffer = code, !.index = 0]

\* lexer.reset(code)
reset(lx, code) == [buffer |-> code, index |-> 0, line |-> 1, col |-> 1]

\* the token lexer.next() returns; the error token holds the rest of the buffer
NextToken(lx) ==
    LET s    == lx.buffer
        i    == lx.index
        type == FirstRule(1, s, i)
        m    == IF type = "LexerError"
                THEN Matched(s, i, Len(s), i, Len(s))
                ELSE Rule(type, s, i)
        text == Slice(s, i, i + m.size)
    IN  [type       |-> type,
         value      |-> m.value,
         offset     |-> i,
         size       |-> m.size,
         lineBreaks |-> IF type \in lineBreakRules \cup {"LexerError"}
                        THEN CountNL(text) ELSE 0,
         line       |-> lx.line,
         col        |-> lx.col]

\* the lexer after lexer.next() returned tok
Advance(lx, tok) ==
    LET text == Slice(lx.buffer, tok.offset, tok.offset + tok.size)
    IN  [buffer |-> lx.buffer,
         index  |-> lx.index + tok.size,
         line   |-> lx.line + tok.lineBreaks,
         col    |-> IF tok.lineBreaks # 0
                    THEN tok.size - LastNL(text) + 1
                    ELSE lx.col + tok.size]

(***************************************************************************)
(* Location (ast/index.js).                                                *)
(***************************************************************************)
\* the token Location falls back on when it is given none
NoToken ==
    [type |-> "undefined", value |-> <<>>, offset |-> 0, size |-> 0,
     lineBreaks |-> 0, line |-> 1, col |-> 1]

Location(token) ==
    [offset     |-> token.offset,
     size       |-> token.size,
     lineBreaks |-> token.lineBreaks,
     line       |-> token.line,
     column     |-> token.col]

\* the location of a node built without a token (null)
NoLocation == [offset |-> -1, size |-> -1, lineBreaks |-> -1, line |-> -1, column |-> -1]

(***************************************************************************)
(* The AST nodes (ast/nodes).  Objects live in a heap, a sequence of       *)
(* records; a reference is an index into it and 0 is null/undefined.       *)
(* A constructor takes the heap and returns [heap, id]: the heap with the  *)
(* new object, and the reference to it.                                    *)
(***************************************************************************)
JSArray(items) == [isArray |-> TRUE, items |-> items]

JSNull == [isArray |-> FALSE, items |-> <<>>]

Range(seq) == {seq[k] : k \in 1..Len(seq)}

\* _.filter(children, x => !!x)
Truthy(children) == SelectSeq(children, LAMBDA x : x # 0)

\* _.each(children, child => { child.parent = id })
SetParent(heap, children, id) ==
    [k \in 1..Len(heap) |->
        IF k \in Range(children) THEN [heap[k] EXCEPT !.parent = id] ELSE heap[k]]

\* a constructor that keeps its children but leaves their parent as it was
NodeOfOrphans(heap, children, token) ==
    LET kids == IF children.isArray THEN Truthy(children.items) ELSE <<>>
    IN  [heap |-> Append(heap, [className |-> "Node", children |-> kids, parent |-> 0,
                                location |-> IF token # NoToken THEN Location(token)
                                             ELSE NoLocation]),
         id   |-> Len(heap) + 1]

\* class Node: constructor(children, token)
Node(heap, children, token) ==
    LET id   == Len(heap) + 1
        kids == IF children.isArray THEN Truthy(children.items) ELSE <<>>
        this == [className |-> "Node",
                 children  |-> kids,
                 parent    |-> 0,
                 location  |-> IF token # NoToken THEN Location(token) ELSE NoLocation]
    IN  [heap |-> Append(SetParent(heap, kids, id), this), id |-> id]

\* a subclass constructor: super(children, token) under the subclass's name
Subclass(className, super) ==
    [heap |-> [super.heap EXCEPT ![super.id].className = className],
     id   |-> super.id]

\* a subclass constructor that then assigns its own fields
Extends(className, super, fields) ==
    LET sub == Subclass(className, super)
    IN  [heap |-> [sub.heap EXCEPT ![sub.id] = fields @@ sub.heap[sub.id]],
         id   |-> sub.id]

\* Node.setChildren(children)
setChildren(heap, id, children) ==
    LET kids == Truthy(children)
    IN  [SetParent(heap, kids, id) EXCEPT ![id].children = kids]

\* class RootNode: constructor(children)
RootNode(heap, children) ==
    Subclass("RootNode", Node(heap, children, NoToken))

\* String.prototype.trim
RECURSIVE trimStart(_)
trimStart(text) ==
    IF text # <<>> /\ Head(text) \in WhiteSpace THEN trimStart(Tail(text)) ELSE text

RECURSIVE trimEnd(_)
trimEnd(text) ==
    IF text # <<>> /\ text[Len(text)] \in WhiteSpace
    THEN trimEnd(SubSeq(text, 1, Len(text) - 1)) ELSE text

trim(text) == trimEnd(trimStart(text))

\* a comment whose text is trimmed whether it is multiline or not
CommentNodeTrimmed(heap, token, text, multiline) ==
    LET super == Node(heap, JSNull, token)
    IN  [heap |-> [super.heap EXCEPT ![super.id] =
                      [text |-> trim(text), multiline |-> multiline]
                      @@ [super.heap[super.id] EXCEPT !.className = "CommentNode"]],
         id   |-> super.id]

\* class CommentNode: constructor(token, text, multiline = false)
CommentNode(heap, token, text, multiline) ==
    Extends("CommentNode", Node(heap, JSNull, token),
            [text      |-> IF multiline THEN text ELSE trim(text),
             multiline |-> multiline])

\* class VariableNode: constructor(token, name, value)
VariableNode(heap, token, name, value) ==
    Extends("VariableNode", Node(heap, JSNull, token),
            [name |-> name, value |-> value])

\* class IncludeNode: constructor(token, file)
IncludeNode(heap, token, file) ==
    Extends("IncludeNode", Node(heap, JSNull, token), [file |-> file])

\* class UseNode extends IncludeNode
UseNode(heap, token, file) ==
    Subclass("UseNode", IncludeNode(heap, token, file))

\* class ModuleNode: constructor(token, name, params, block)
ModuleNode(heap, token, name, params, block) ==
    Extends("ModuleNode", Node(heap, block, token),
            [name |-> name, params |-> params])

\* name.replace(/([!#\*\%]?)(.*)/, '$2') and the same with '$1': the capture
\* of an actionCall token holds no line terminator, so (.*) takes the rest
StripModifier(name) ==
    IF name # <<>> /\ Head(name) \in Modifiers THEN Tail(name) ELSE name

ModifierOf(name) ==
    IF name # <<>> /\ Head(name) \in Modifiers THEN <<Head(name)>> ELSE <<>>

\* class ActionNode: constructor(token, name, params = [])
ActionNode(heap, token, name, params) ==
    Extends("ActionNode", Node(heap, JSNull, token),
            [name     |-> StripModifier(name),
             modifier |-> ModifierOf(name),
             params   |-> params,
             label    |-> <<>>])

\* ActionNode.setLabel(label)
setLabel(heap, id, label) == [heap EXCEPT ![id].label = label]

\* class FunctionNode: constructor(token, name, params, expression)
FunctionNode(heap, token, name, params, expression) ==
    Extends("FunctionNode", Node(heap, JSNull, token),
            [name |-> name, params |-> params, expression |-> expression])

(***************************************************************************)
(* The grammar (nearley/grammar) and the nearley parser fed one token at a *)
(* time.  The grammar is the statement and expression grammar of the       *)
(* specification, left-factored so that one token decides each production: *)
(* the parser is a stack of grammar symbols, feed(token) rejects the token *)
(* exactly when no derivation continues with it, and results holds a       *)
(* derivation exactly when the tokens fed so far are a whole program.      *)
(* A symbol is a token kind, "minus" (an operator2 token "-"), the name of *)
(* a nonterminal, or a postprocessor ("#...") that builds one node from    *)
(* the values matched since the last "#mark".                              *)
(***************************************************************************)
Terminals == Range(tokens) \cup {"minus"}

Postprocessors ==
    {"#mark", "#comment", "#mlComment", "#include", "#use", "#variable",
     "#module", "#function", "#action", "#expr", "#program"}

\* %kind tests tok.type === kind
TokenTest(sym, tok) ==
    \/ sym = tok.type
    \/ sym = "minus" /\ tok.type = "operator2" /\ tok.value = <<"-">>

FirstStatement ==
    {"comment", "mlComment", "include", "use", "identifier",
     "moduleDefinition", "functionDefinition", "actionCall"}

FirstAtom == {"float", "string", "bool", "identifier", "lvect", "lparent"}

FirstExpression == FirstAtom \cup {"operator2"}

NoRule == <<"#none">>

\* the production of nonterminal nt that can start with tok; <<>> is the
\* empty production and NoRule that there is none
ParserRules(nt, tok) ==
    LET t == tok.type IN
    CASE nt = "Main" -> <<"#mark", "Statements", "#program">>
      [] nt = "Statements" ->
            IF t \in FirstStatement THEN <<"Statement", "Statements">> ELSE <<>>
      [] nt = "Statement" ->
            CASE t = "comment" -> <<"#mark", "comment", "#comment">>
              [] t = "mlComment" -> <<"#mark", "mlComment", "#mlComment">>
              [] t = "include" -> <<"#mark", "include", "OptEos", "#include">>
              [] t = "use" -> <<"#mark", "use", "OptEos", "#use">>
              [] t = "identifier" -> <<"#mark", "identifier", "IdentifierTail">>
              [] t = "moduleDefinition" ->
                    <<"#mark", "moduleDefinition", "Parameters", "rparent",
                      "Block", "#module">>
              [] t = "functionDefinition" ->
                    <<"#mark", "functionDefinition", "Parameters", "rparent",
                      "assign", "Expression", "eos", "#function">>
              [] t = "actionCall" -> <<"#mark", "Action", "#action">>
              [] OTHER -> NoRule
      [] nt = "IdentifierTail" ->
            CASE t = "assign" -> <<"assign", "Expression", "eos", "#variable">>
              [] t = "seperator" -> <<"seperator", "Action", "#action">>
              [] OTHER -> NoRule
      [] nt = "Action" -> <<"actionCall", "Arguments", "rparent", "ActionTail">>
      [] nt = "ActionTail" ->
            CASE t = "eos" -> <<"eos">>
              [] t = "lblock" -> <<"Block">>
              [] t = "actionCall" -> <<"#mark", "Action", "#action">>
              [] OTHER -> NoRule
      [] nt = "OptEos" -> IF t = "eos" THEN <<"eos">> ELSE <<>>
      [] nt = "Block" -> <<"lblock", "Statements", "rblock">>
      [] nt = "Parameters" ->
            IF t = "identifier" THEN <<"identifier", "MoreParameters">> ELSE <<>>
      [] nt = "MoreParameters" ->
            IF t = "comma" THEN <<"comma", "identifier", "MoreParameters">> ELSE <<>>
      [] nt = "Arguments" ->
            IF t \in FirstExpression THEN <<"Expression", "MoreArguments">> ELSE <<>>
      [] nt = "MoreArguments" ->
            IF t = "comma" THEN <<"comma", "Expression", "MoreArguments">> ELSE <<>>
      [] nt = "Expression" -> <<"#mark", "Sum", "#expr">>
      [] nt = "Sum" -> <<"Product", "MoreSum">>
      [] nt = "MoreSum" ->
            IF t = "operator2" THEN <<"operator2", "Product", "MoreSum">> ELSE <<>>
      [] nt = "Product" -> <<"Unary", "MoreProduct">>
      [] nt = "MoreProduct" ->
            IF t = "operator1" THEN <<"operator1", "Unary", "MoreProduct">> ELSE <<>>
      [] nt = "Unary" ->
            IF TokenTest("minus", tok) THEN <<"minus", "Atom">> ELSE <<"Atom">>
      [] nt = "Atom" ->
            CASE t \in {"float", "string", "bool", "identifier"} -> <<t>>
              [] t = "lparent" -> <<"lparent", "Expression", "rparent">>
              [] t = "lvect" -> <<"lvect", "VectorBody">>
              [] OTHER -> NoRule
      [] nt = "VectorBody" ->
            IF t = "rvect" THEN <<"rvect">> ELSE <<"Expression", "VectorTail">>
      [] nt = "VectorTail" ->
            CASE t = "rvect" -> <<"rvect">>
              [] t = "comma" -> <<"comma", "Expression", "MoreItems">>
              [] t = "seperator" -> <<"seperator", "Expression", "RangeTail">>
              [] OTHER -> NoRule
      [] nt = "MoreItems" ->
            CASE t = "rvect" -> <<"rvect">>
              [] t = "comma" -> <<"comma", "Expression", "MoreItems">>
              [] OTHER -> NoRule
      [] nt = "RangeTail" ->
            CASE t = "rvect" -> <<"rvect">>
              [] t = "seperator" -> <<"seperator", "Expression", "rvect">>
              [] OTHER -> NoRule

ParserStart == "Main"

\* the values a postprocessor is handed: a token, a node, an expression
\* (kept as the values of its tokens), the list of statements of a program
TokenItem(tok) == [k |-> "token", token |-> tok]

NodeItem(id) == [k |-> "node", id |-> id]

ExprItem(values) == [k |-> "expr", values |-> values]

ListItem(ids) == [k |-> "list", ids |-> ids]

MarkItem == [k |-> "mark"]

LastMark(vals) == Max({k \in 1..Len(vals) : vals[k].k = "mark"})

Since(vals) == SubSeq(vals, LastMark(vals) + 1, Len(vals))

Before(vals) == SubSeq(vals, 1, LastMark(vals) - 1)

OfKind(items, k) == SelectSeq(items, LAMBDA x : x.k = k)

TokensOf(items, type) ==
    SelectSeq(items, LAMBDA x : x.k = "token" /\ x.token.type = type)

IdsOf(items) == [j \in 1..Len(OfKind(items, "node")) |-> OfKind(items, "node")[j].id]

ValuesOf(items) == [j \in 1..Len(items) |-> items[j].token.value]

RECURSIVE Flatten(_)
Flatten(items) ==
    IF items = <<>> THEN <<>>
    ELSE (IF Head(items).k = "expr" THEN Head(items).values
          ELSE <<Head(items).token.value>>) \o Flatten(Tail(items))

\* the postprocessor of a production: the parser [stack, vals, heap] after it
Postprocess(sym, ps) ==
    LET items == Since(ps.vals)
        rest  == Before(ps.vals)
        first == items[1].token
        done(r) == [ps EXCEPT !.heap = r.heap,
                              !.vals = Append(rest, NodeItem(r.id))]
    IN
    CASE sym = "#mark" -> [ps EXCEPT !.vals = Append(ps.vals, MarkItem)]
      [] sym = "#comment" -> done(CommentNode(ps.heap, first, first.value, FALSE))
      [] sym = "#mlComment" -> done(CommentNode(ps.heap, first, first.value, TRUE))
      [] sym = "#include" -> done(IncludeNode(ps.heap, first, first.value))
      [] sym = "#use" -> done(UseNode(ps.heap, first, first.value))
      [] sym = "#variable" ->
            done(VariableNode(ps.heap, first, first.value,
                              OfKind(items, "expr")[1].values))
      [] sym = "#module" ->
            done(ModuleNode(ps.heap, first, first.value,
                            ValuesOf(TokensOf(items, "identifier")),
                            JSArray(IdsOf(items))))
      [] sym = "#function" ->
            done(FunctionNode(ps.heap, first, first.value,
                              ValuesOf(TokensOf(items, "identifier")),
                              OfKind(items, "expr")[1].values))
      [] sym = "#action" ->
            LET call  == TokensOf(items, "actionCall")[1].token
                exprs == OfKind(items, "expr")
                r     == ActionNode(ps.heap, call, call.value,
                                    [j \in 1..Len(exprs) |-> exprs[j].values])
                h1    == setChildren(r.heap, r.id, IdsOf(items))
                h2    == IF first.type = "identifier"
                         THEN setLabel(h1, r.id, first.value) ELSE h1
            IN  done([heap |-> h2, id |-> r.id])
      [] sym = "#expr" -> [ps EXCEPT !.vals = Append(rest, ExprItem(Flatten(items)))]
      [] sym = "#program" -> [ps EXCEPT !.vals = Append(rest, ListItem(IdsOf(items)))]

\* new nearley.Parser(grammar.ParserRules, grammar.ParserStart)
Parser == [stack |-> <<ParserStart>>, vals |-> <<>>, heap |-> <<>>,
           fed |-> 0, rejected |-> FALSE]

\* the parser after the symbols on top of the stack took tok; rejected when
\* no production continues with it
RECURSIVE Scan(_, _)
Scan(ps, tok) ==
    IF ps.stack = <<>> THEN [ps EXCEPT !.rejected = TRUE]
    ELSE LET top  == Head(ps.stack)
             pop  == [ps EXCEPT !.stack = Tail(ps.stack)]
         IN  IF top \in Postprocessors THEN Scan(Postprocess(top, pop), tok)
             ELSE IF top \in Terminals
             THEN IF TokenTest(top, tok)
                  THEN [pop EXCEPT !.vals = Append(ps.vals, TokenItem(tok))]
                  ELSE [ps EXCEPT !.rejected = TRUE]
             ELSE IF ParserRules(top, tok) = NoRule
                  THEN [ps EXCEPT !.rejected = TRUE]
                  ELSE Scan([pop EXCEPT !.stack = ParserRules(top, tok) \o Tail(ps.stack)],
                            tok)

\* parser.feed([token]): throws (rejected) when the token is unexpected
feed(ps, tok) == Scan([ps EXCEPT !.fed = ps.fed + 1], tok)

\* the end of the token stream: the remaining symbols derive nothing
EndOfInput == [NoToken EXCEPT !.type = "<end>"]

RECURSIVE Finish(_)
Finish(ps) ==
    IF ps.stack = <<>> THEN ps
    ELSE LET top == Head(ps.stack)
             pop == [ps EXCEPT !.stack = Tail(ps.stack)]
         IN  IF top \in Postprocessors THEN Finish(Postprocess(top, pop))
             ELSE IF top \in Terminals \/ ParserRules(top, EndOfInput) = NoRule
             THEN [ps EXCEPT !.rejected = TRUE]
             ELSE Finish([pop EXCEPT !.stack = ParserRules(top, EndOfInput) \o Tail(ps.stack)])

\* parser.results: undefined before the first feed; after it, the completed
\* derivations of the start symbol, each the list of statement nodes
ResultsDefined(ps) == ps.fed > 0

results(ps) ==
    IF Finish(ps).rejected THEN <<>> ELSE << Finish(ps) >>

(***************************************************************************)
(* SCADParser (src/index.js).  A JavaScript string is a sequence of        *)
(* characters, a file identifier as well as a source text; undefined and   *)
(* null are the two values here that are no string.                        *)
(***************************************************************************)
undefined == <<"<undefined>">>

null == <<"<null>">>

\* _.isString
isString(x) == x # undefined /\ x # null

\* if (code): null and the empty string are falsy
truthy(code) == code # null /\ code # <<>>

\* what a tree-valued slot holds before it is assigned
NoTree == [heap |-> <<>>, root |-> 0]

\* this.ignoredTokens
ignoredTokens == {"whitespace", "eol"}

\* a parse that appends to the tokens the file already has
KeepTokenCache(old) == old

\* this.tokenCache[file] = []
EmptyTokenCache(old) == <<>>

\* while (token = lexer.next()) { ... }: run is the lexer, the parser, the
\* file's token cache, the tokens handed to feed so far, and whether feed threw
RECURSIVE Iterate(_), Body(_, _), Feed(_, _)
Iterate(run) ==
    IF run.lexer.index >= Len(run.lexer.buffer) THEN run
    ELSE Body(run, NextToken(run.lexer))

\* the body of the loop: an ignored token is skipped, any other is captured
\* and fed
Body(run, token) ==
    IF token.type \in ignoredTokens
    THEN Iterate([run EXCEPT !.lexer = Advance(run.lexer, token)])
    ELSE Feed([run EXCEPT !.lexer = Advance(run.lexer, token),
                          !.tokenCache = Append(@, token),
                          !.fed = Append(@, token)],
              feed(run.parser, token))

\* parser.feed([token]) throws and ends the loop, or the loop goes on
Feed(run, parser) ==
    IF parser.rejected THEN [run EXCEPT !.threw = TRUE]
    ELSE Iterate([run EXCEPT !.parser = parser])

\* the last captured token of the file: undefined (NoToken) when there is none
LastToken(tokenCache) ==
    IF tokenCache = <<>> THEN NoToken ELSE tokenCache[Len(tokenCache)]

\* the catch block with its first branch left out: every failure a Parser error
ParserErrorOnly(last) == "ParserError"

\* if (last && last.type === 'LexerError') ... else ...
ErrorKind(last) ==
    IF last # NoToken /\ last.type = "LexerError" THEN "LexerError" ELSE "ParserError"

\* new RootNode(parser.results[0]): the first derivation's statements, or
\* undefined when there is none
Root(parser) ==
    LET r == results(parser)
        made == IF r = <<>>
                THEN RootNode(<<>>, JSNull)
                ELSE RootNode(r[1].heap, JSArray(r[1].vals[1].ids))
    IN  [heap |-> made.heap, root |-> made.id]

\* Array.prototype.slice(begin, end): a negative index counts from the end
slice(array, begin, end) ==
    LET from == IF begin < 0 THEN Max({Len(array) + begin, 0})
                ELSE Min({begin, Len(array)})
        to   == IF end < 0 THEN Max({Len(array) + end, 0})
                ELSE Min({end, Len(array)})
    IN  SubSeq(array, from + 1, to)

\* the 1-based position of the k-th "\n" of text; 0 before the first line
\* and Len(text) + 1 after the last
NthNL(text, k) ==
    IF k = 0 THEN 0
    ELSE IF k > CountNL(text) THEN Len(text) + 1
    ELSE CHOOSE p \in 1..Len(text) :
            /\ text[p] = "\n"
            /\ Cardinality({q \in 1..p : text[q] = "\n"}) = k

\* text.split('\n')
split(text) ==
    [k \in 1..(CountNL(text) + 1) |->
        SubSeq(text, NthNL(text, k - 1) + 1, NthNL(text, k) - 1)]

\* rows.join('\n')
RECURSIVE join(_)
join(rows) ==
    IF Len(rows) = 0 THEN <<>>
    ELSE IF Len(rows) = 1 THEN rows[1]
    ELSE rows[1] \o <<"\n">> \o join(Tail(rows))

\* n.toString() of a number n >= 0
RECURSIVE toString(_)
toString(n) ==
    LET digit == <<"0", "1", "2", "3", "4", "5", "6", "7", "8", "9">>[(n % 10) + 1]
    IN  IF n < 10 THEN <<digit>> ELSE toString(n \div 10) \o <<digit>>

\* _.times(n, () => c).join('')
times(n, c) == [k \in 1..n |-> c]

\* pad(n, width): n in decimal, zeros in front up to the width
pad(n, width) ==
    IF Len(toString(n)) >= width THEN toString(n)
    ELSE times(width - Len(toString(n)), "0") \o toString(n)

\* drawMarker(indent)
drawMarker(location, indent) ==
    times(indent, " ") \o times(location.column + 1, " ")
        \o <<"^">> \o times(location.size - 2, "-") \o <<"^">>

\* the default of the parameter lines of getCodeExcerpt
DefaultLines == 3

\* the window of getCodeExcerpt: the index of its first line, and end
ExcerptStart(location, lines) == Max({location.line - (lines + 2), 0})

ExcerptEnd(code, location, lines) ==
    IF location.line + (lines - 1) >= Len(split(code))
    THEN Len(split(code)) - 1
    ELSE location.line + (lines - 1)

\* the rendering of the line at index (0-based) of the window rows
ExcerptRow(rows, index, start, end, location) ==
    IF index # location.line - 1
    THEN pad(index + start + 1, Len(toString(end))) \o <<":", " ">> \o rows[index + 1]
    ELSE pad(index + start + 1, Len(toString(end))) \o <<":", " ">> \o rows[index + 1]
            \o <<"\n">> \o drawMarker(location, Len(toString(end)))

ExcerptRows(rows, start, end, location) ==
    join([k \in 1..Len(rows) |-> ExcerptRow(rows, k - 1, start, end, location)])

\* getCodeExcerpt(file, location, lines) where code is this.codeCache[file]
getCodeExcerpt(code, location, lines) ==
    ExcerptRows(slice(split(code), ExcerptStart(location, lines),
                      location.line + (lines - 1)),
                ExcerptStart(location, lines),
                ExcerptEnd(code, location, lines),
                location)

\* what parse returns or throws once the loop has ended with run: the tree
\* of the first derivation, or the error of the catch block with its
\* location, excerpt and last tokens.  code is this.codeCache[file], which
\* parseAST sets to the text it parses.  fed, accepted and derivations record
\* what went on inside: the tokens handed to feed, whether feed took them
\* all, and how many derivations parser.results held.
Outcome(run, code) ==
    \* parser.results is undefined when nothing was fed: results[0] throws
    LET threw == run.threw \/ ~ResultsDefined(run.parser)
    IN  [lexer       |-> run.lexer,
         tokenCache  |-> run.tokenCache,
         fed         |-> run.fed,
         accepted    |-> ~run.threw,
         derivations |-> IF threw THEN 0 ELSE Len(results(run.parser)),
         threw       |-> threw,
         error       |-> IF threw THEN ErrorKind(LastToken(run.tokenCache)) ELSE "none",
         location    |-> IF threw THEN Location(LastToken(run.tokenCache))
                         ELSE NoLocation,
         excerpt     |-> IF threw
                         THEN getCodeExcerpt(code, Location(LastToken(run.tokenCache)),
                                             DefaultLines)
                         ELSE <<>>,
         lastTokens  |-> IF threw /\ ErrorKind(LastToken(run.tokenCache)) = "ParserError"
                         THEN slice(run.tokenCache, Len(run.tokenCache) - 3,
                                    Len(run.tokenCache))
                         ELSE <<>>,
         value       |-> IF threw THEN NoTree ELSE Root(run.parser)]

\* parse(code, file) with the module's lexer lx and the file's token cache:
\* the lexer and the token cache it leaves, and what it returns or throws
parse(lx, tokenCache, code, file) ==
    Outcome(Iterate([lexer      |-> reset(lx, code),
                     parser     |-> Parser,
                     tokenCache |-> EmptyTokenCache(tokenCache),
                     fed        |-> <<>>,
                     threw      |-> FALSE]),
            code)

\* a parameter left at its default null, or given as the empty string
NoType == "null"

\* findTokens(value, type, file) on the tokens cached for file: if (value)
\* and if (type) decide which properties _.filter matches
findTokens(tokenCache, value, type) ==
    SelectSeq(tokenCache,
              LAMBDA token : /\ truthy(value) => token.value = value
                             /\ type \notin {NoType, ""} => token.type = type)

\* the tokens of the cache that getToken's test accepts for (column, line)
Hits(tokenCache, column, line) ==
    { k \in 1..Len(tokenCache) :
        /\ line = tokenCache[k].line
        /\ column >= tokenCache[k].col
        /\ column < tokenCache[k].col + tokenCache[k].size }

\* getToken(column, line, file) on the tokens cached for file: the first
\* token accepted, as <<token>>; <<>> is null
getToken(tokenCache, column, line) ==
    IF Hits(tokenCache, column, line) = {} THEN <<>>
    ELSE <<tokenCache[Min(Hits(tokenCache, column, line))]>>

\* parseAST without its guard
Unguarded(file, code) == FALSE

\* if (!_.isString(file) && !_.isString(code)) throw ...
InvalidInvocation(file, code) == ~isString(file) /\ ~isString(code)

\* the property key a file identifier is used as
Key(file) ==
    IF file = undefined THEN <<"u", "n", "d", "e", "f", "i", "n", "e", "d">> ELSE file

(***************************************************************************)
(* The state: the caches of each SCADParser instance, keyed by file        *)
(* identifier, the one lexer of the module that every instance shares, and *)
(* what the most recent call was given and what it returned or threw.      *)
(* first remembers, for each source text, what the first parse of it gave. *)
(***************************************************************************)
VARIABLES cache, codeCache, tokenCache, lexer, calls, last, first

vars == <<cache, codeCache, tokenCache, lexer, calls, last, first>>

\* the number of calls a behaviour makes
MaxCalls == 2

\* the SCADParser instances and the file identifiers they are called with
Instances == {1, 2}

Files == { <<"a">>, <<"b">> }

Keys == Files \cup {Key(undefined)}

\* source texts: "a=1;" parses, "b b;" is rejected at its second token,
\* "c=2;\n&" reaches a character no rule matches on its second line
Sources ==
    { <<"a", "=", "1", ";">>,
      <<"b", " ", "b", ";">>,
      <<"c", "=", "2", ";", "\n", "&">> }

\* fs.readFileSync(file, 'utf8') returns the text of the file or throws
ENOENT == <<"<ENOENT>">>

OnDisk == { <<"a", "=", "1", ";">> }

NoCall ==
    [op |-> "none", this |-> 0, file |-> undefined, code |-> null,
     source |-> null, outcome |-> "none", location |-> NoLocation,
     excerpt |-> <<>>, lastTokens |-> <<>>, args |-> <<>>, result |-> <<>>,
     value |-> NoTree, fed |-> <<>>, accepted |-> FALSE, derivations |-> 0]

\* what a caller can observe of a parse: the tree or the error, and the
\* tokens cached for the file
Observed(call, cached) ==
    [outcome |-> call.outcome, location |-> call.location,
     value |-> call.value, tokens |-> cached]

Init ==
    /\ cache = [p \in Instances |-> [k \in Keys |-> NoTree]]
    /\ codeCache = [p \in Instances |-> [k \in Keys |-> null]]
    /\ tokenCache = [p \in Instances |-> [k \in Keys |-> <<>>]]
    /\ lexer = compile
    /\ calls = 0
    /\ last = NoCall
    /\ first = << >>

\* the body of parseAST once it has its source text: both branches of
\* if (code) cache the text, parse it and cache the tree parse returns
ParseSource(this, file, code, source) ==
    \E r \in {parse(lexer, tokenCache[this][Key(file)], source, file)} :
        /\ codeCache' = [codeCache EXCEPT ![this][Key(file)] = source]
        /\ tokenCache' = [tokenCache EXCEPT ![this][Key(file)] = r.tokenCache]
        /\ lexer' = r.lexer
        /\ cache' = IF r.threw THEN cache
                    ELSE [cache EXCEPT ![this][Key(file)] = r.value]
        /\ last' = [op |-> "parseAST", this |-> this, file |-> file,
                    code |-> code, source |-> source,
                    outcome |-> IF r.threw THEN r.error ELSE "returned",
                    location |-> r.location, excerpt |-> r.excerpt,
                    lastTokens |-> r.lastTokens, args |-> <<>>, result |-> <<>>,
                    value |-> r.value, fed |-> r.fed,
                    accepted |-> r.accepted, derivations |-> r.derivations]
        /\ first' = IF \E k \in 1..Len(first) : first[k].source = source
                    THEN first
                    ELSE Append(first, [source |-> source,
                                        seen |-> Observed(last', r.tokenCache)])

\* a call that throws before it parses
Throws(this, file, code, error) ==
    /\ last' = [NoCall EXCEPT !.op = "parseAST", !.this = this, !.file = file,
                              !.code = code, !.outcome = error]
    /\ UNCHANGED <<cache, codeCache, tokenCache, lexer, first>>

\* parseAST(file, code) on instance this; read is what fs.readFileSync
\* gives when the call comes to read the file
parseAST(this, file, code, read) ==
    /\ calls' = calls + 1
    /\ IF InvalidInvocation(file, code)
       THEN Throws(this, file, code, "InvalidInvocation")
       ELSE IF truthy(code)
       THEN ParseSource(this, file, code, code)
       ELSE IF read = ENOENT \/ ~isString(file)
       THEN Throws(this, file, code, "IOError")
       ELSE ParseSource(this, file, code, read)

\* a call with the source text given
ParseCode ==
    /\ calls < MaxCalls
    /\ \E this \in Instances, file \in Files, code \in Sources :
          parseAST(this, file, code, ENOENT)

\* a call without a source text (none, or the empty string): the file is read
ParseFile ==
    /\ calls < MaxCalls
    /\ \E this \in Instances, file \in Files, code \in {null, <<>>},
          read \in OnDisk \cup {ENOENT} :
          parseAST(this, file, code, read)

\* a call with neither a file identifier nor a source text
ParseNothing ==
    /\ calls < MaxCalls
    /\ \E this \in Instances : parseAST(this, undefined, null, ENOENT)

Next == ParseCode \/ ParseFile \/ ParseNothing

Spec == Init /\ [][Next]_vars

(***************************************************************************)
(* One call on a fresh instance, over families of source texts.            *)
(***************************************************************************)
\* the strings over an alphabet of at most n characters
Strings(alphabet, n) == UNION { [1..k -> alphabet] : k \in 0..n }

NonEmpty(S) == { t \in S : Len(t) > 0 }

\* whether text t holds the literal lit somewhere
Contains(t, lit) == \E i \in 0..Len(t) : StartsWith(t, i, lit)

\* the source texts of the exceptions tests, and two of the incomplete kind
Samples ==
    { <<"&", "%", "!", ";">>,
      <<"m", "y", "V", "a", "r", " ", "m", "o", "d", "u", "l", "e", " ", ";">>,
      <<"a", " ", "=", " ", "1">>,
      <<" ">> }

\* short texts of statement characters, whole and broken statements alike
MaxLen == 4

Fragments == NonEmpty(Strings({"a", "=", "1", ";", "&", "\n"}, MaxLen))

\* module bodies: an assignment, a call, a block comment, a call with a
\* block of its own, a line comment
MaxStatements == 2

Forms ==
    << <<"a", "=", "1", ";">>,
       <<"b", "(", ")", ";">>,
       <<"/", "*", "c", "*", "/">>,
       <<"d", "(", ")", "{", "e", "(", ")", ";", "}">>,
       <<"/", "/", "f", "\n">> >>

FormClass ==
    <<"VariableNode", "ActionNode", "CommentNode", "ActionNode", "CommentNode">>

Bodies == Strings(1..Len(Forms), MaxStatements)

RECURSIVE BodyText(_)
BodyText(body) ==
    IF Len(body) = 0 THEN <<>>
    ELSE Forms[body[1]] \o BodyText(Tail(body))

ModuleHead == <<"m", "o", "d", "u", "l", "e", " ", "m", "(", ")", "{">>

ModuleSource(body) == ModuleHead \o BodyText(body) \o <<"}">>

\* comments: the text of a line comment, the text of a block comment
MaxText == 3

LineTexts == Strings({" ", "\t", "x", "/"}, MaxText)

BlockTexts ==
    { t \in Strings({" ", "x", "*", "\n"}, MaxText) : ~Contains(t, <<"*", "/">>) }

LineComment(text) == <<"/", "/">> \o text \o <<"\n">>

BlockComment(text) == <<"/", "*">> \o text \o <<"*", "/">>

\* include and use statements: the keyword, the path, what follows the >
MaxPath == 2

Keywords == { <<"i", "n", "c", "l", "u", "d", "e">>, <<"u", "s", "e">> }

Paths == NonEmpty(Strings({"a", ".", "/"}, MaxPath))

Followers ==
    { <<>>, <<";">>, <<";", "\n", "a", "=", "1", ";">>,
      <<";", "a", "=", "1", ";">>,
      <<";", "u", "s", "e", " ", "<", "b", ">">>,
      <<" ", "b", ">">> }

Inclusion(kw, path, follower) == kw \o <<" ", "<">> \o path \o <<">">> \o follower

\* action calls: the modifier, the identifier
MaxIdent == 2

Identifiers ==
    { t \in NonEmpty(Strings({"a", "_", "$", "1"}, MaxIdent)) :
        /\ t[1] \in IdentStart
        /\ \A k \in 2..Len(t) : t[k] \in IdentPart }

Modified == Modifiers \cup {""}

Prefix(m) == IF m = "" THEN <<>> ELSE <<m>>

Call(m, id) == Prefix(m) \o id \o <<"(", ")", ";">>

\* comparisons: each operator of the operator3 rule between two operands
Comparators ==
    { <<"<">>, <<"<", "=">>, <<"=", "=">>, <<"!", "=">>, <<">", "=">>, <<">">>,
      <<"&", "&">>, <<"|", "|">> }

Comparison(op) == <<"a">> \o op \o <<"b">>

\* sources of several lines, one of which fails: line l of n is "b b;",
\* whose second identifier the parser refuses, the others are "a=1;"
MaxLines == 7

RECURSIVE Listing(_, _, _)
Listing(k, n, l) ==
    IF k > n THEN <<>>
    ELSE (IF k = l THEN <<"b", " ", "b", ";">> ELSE <<"a", "=", "1", ";">>)
         \o (IF k < n THEN <<"\n">> ELSE <<>>) \o Listing(k + 1, n, l)

Listings == { Listing(1, n, l) : n \in 1..MaxLines, l \in 1..MaxLines }

Inputs ==
    Samples \cup Fragments
    \cup { ModuleSource(body) : body \in Bodies }
    \cup { LineComment(text) : text \in LineTexts }
    \cup { BlockComment(text) : text \in BlockTexts }
    \cup { Inclusion(kw, path, f) : kw \in Keywords, path \in Paths, f \in Followers }
    \cup { Call(m, id) : m \in Modified, id \in Identifiers }
    \cup { Comparison(op) : op \in Comparators }
    \cup Listings

\* the first call of a fresh instance, with the source text given
ParseInput ==
    /\ calls = 0
    /\ \E code \in Inputs : parseAST(1, <<"a">>, code, ENOENT)

SpecInput == Init /\ [][ParseInput]_vars

(***************************************************************************)
(* One parse on a fresh instance, then a query of its token cache.         *)
(***************************************************************************)
\* "a=a;" repeats a value, "b b;" fails at its second token, the block
\* comment of "/*a\nb*/c=2;" spans two lines, the line comment of "//\na=1;"
\* has the empty string as its value
QuerySources ==
    { <<"a", "=", "a", ";">>,
      <<"b", " ", "b", ";">>,
      <<"/", "*", "a", "\n", "b", "*", "/", "c", "=", "2", ";">>,
      <<"/", "/", "\n", "a", "=", "1", ";">> }

\* the positions asked for
MaxColumn == 8

MaxLine == 2

\* the values and the kinds asked for
QueryValues == { null, <<>>, <<"a">>, <<"2">>, <<"=">> }

QueryTypes == { NoType, "", "identifier", "assign", "comment" }

ParseQuerySource ==
    /\ calls = 0
    /\ \E code \in QuerySources : parseAST(1, <<"a">>, code, ENOENT)

\* a query: it returns, and changes nothing
Returns(op, file, args, result) ==
    /\ calls = 1
    /\ calls' = calls + 1
    /\ last' = [NoCall EXCEPT !.op = op, !.this = 1, !.file = file,
                              !.args = args, !.result = result,
                              !.outcome = "returned"]
    /\ UNCHANGED <<cache, codeCache, tokenCache, lexer, first>>

GetToken ==
    \E column \in 1..MaxColumn, line \in 1..MaxLine, file \in Files :
        Returns("getToken", file, [column |-> column, line |-> line],
                getToken(tokenCache[1][Key(file)], column, line))

FindTokens ==
    \E value \in QueryValues, type \in QueryTypes, file \in Files :
        Returns("findTokens", file, [value |-> value, type |-> type],
                findTokens(tokenCache[1][Key(file)], value, type))

NextQuery == ParseQuerySource \/ GetToken \/ FindTokens

SpecQuery == Init /\ [][NextQuery]_vars

(***************************************************************************)
(* Nodes built and rearranged by hand: constructions with child lists and  *)
(* setChildren calls, on the heap of last.value.                           *)
(***************************************************************************)
\* the number of constructions and calls, the nodes, the length of a list
MaxOps == 4

MaxChildren == 2

\* the child lists a caller can pass: nodes that exist, none of them twice,
\* and null (0) entries
ChildLists(heap, self) ==
    { list \in Strings(0..Len(heap), MaxChildren) :
        /\ self \notin Range(list)
        /\ \A j, k \in 1..Len(list) : (j # k /\ list[j] # 0) => list[j] # list[k] }

Built(op, heap, id) ==
    /\ calls' = calls + 1
    /\ last' = [NoCall EXCEPT !.op = op, !.outcome = "returned",
                              !.value = [heap |-> heap, root |-> id]]
    /\ UNCHANGED <<cache, codeCache, tokenCache, lexer, first>>

\* new Node(children) with an array of children
Construct ==
    /\ calls < MaxOps
    /\ \E children \in ChildLists(last.value.heap, 0) :
          \E r \in {Node(last.value.heap, JSArray(children), NoToken)} :
              Built("Node", r.heap, r.id)

\* new Node() without children
ConstructLeaf ==
    /\ calls < MaxOps
    /\ \E r \in {Node(last.value.heap, JSNull, NoToken)} : Built("Node", r.heap, r.id)

\* node.setChildren(children)
SetChildren ==
    /\ calls < MaxOps
    /\ \E id \in 1..Len(last.value.heap) :
          \E children \in ChildLists(last.value.heap, id) :
              Built("setChildren", setChildren(last.value.heap, id, children), id)

NextNodes == Construct \/ ConstructLeaf \/ SetChildren

SpecNodes == Init /\ [][NextNodes]_vars

(***************************************************************************)
(* Properties.                                                             *)
(***************************************************************************)
\* the last call went through parse: it returned a tree or parse threw
Parsed == last.outcome \in {"returned", "LexerError", "ParserError"}

Failed == last.outcome \in {"LexerError", "ParserError"}

\* the tokens cached for the file of the last call, on its instance
Cached == tokenCache[last.this][Key(last.file)]

Sample(k) ==
    CASE k = 1 -> <<"&", "%", "!", ";">>
      [] k = 2 -> <<"m", "y", "V", "a", "r", " ", "m", "o", "d", "u", "l", "e", " ", ";">>
      [] k = 3 -> <<"a", " ", "=", " ", "1">>

\* C1: a parse that fails raises a Lexer error exactly when the last token
\* captured before the failure is the lexer's error token, which is exactly
\* when the lexer produced its error token, and a Parser error otherwise;
\* "&%!;" raises a Lexer error and "myVar module ;" a Parser error.
C1_LexerErrorIffLastTokenIsError ==
    /\ Failed =>
          /\ last.outcome = "LexerError"
                <=> (Cached # <<>> /\ Cached[Len(Cached)].type = "LexerError")
          /\ last.outcome = "LexerError"
                <=> \E k \in 1..Len(last.fed) : last.fed[k].type = "LexerError"
          /\ last.outcome = "ParserError"
                <=> (Cached = <<>> \/ Cached[Len(Cached)].type # "LexerError")
    /\ last.source = Sample(1) => last.outcome = "LexerError"
    /\ last.source = Sample(2) => last.outcome = "ParserError"

\* a parse that failed on a character no rule matches, after tokens that lexed
C1_Witness ==
    /\ last.outcome = "LexerError"
    /\ Len(Cached) > 1
    /\ Cached[1].type # "LexerError"

\* C2: a call whose tokens the parser all accepted but which completed no
\* derivation raises a Parser error and returns no tree, as "a = 1" without
\* its semicolon.
C2_NoDerivationRaises ==
    (Parsed /\ last.accepted /\ last.derivations = 0)
        => (last.outcome = "ParserError" /\ last.value = NoTree)

\* C3: a call with neither a string file identifier nor a string source text
\* raises the invalid-invocation error, and no cache of any instance is
\* modified by it.
C3_InvalidInvocationBeforeCaches ==
    [][ (calls' = calls + 1 /\ ~isString(last'.file) /\ ~isString(last'.code))
            => /\ last'.outcome = "InvalidInvocation"
               /\ UNCHANGED <<cache, codeCache, tokenCache>> ]_vars

\* an invalid call on an instance that has parsed before
C3_Witness ==
    /\ last.outcome = "InvalidInvocation"
    /\ \E k \in Keys : tokenCache[last.this][k] # <<>>

\* C4: what a call with a source text gives (the tree, or the class and the
\* location of the error, and the tokens cached) is what the first parse of
\* that text gave, whatever was parsed in between, for whatever file and on
\* whichever instance.
C4_OutcomeFunctionOfCode ==
    Parsed =>
        /\ truthy(last.code) => last.source = last.code
        /\ \A k \in 1..Len(first) :
              first[k].source = last.source
                  => first[k].seen = Observed(last, Cached)

\* the second parse of a text of two lines, on the other instance
C4_Witness ==
    /\ calls = 2 /\ Len(first) = 1
    /\ last.this = 2 /\ Parsed /\ truthy(last.code)
    /\ "\n" \in Range(last.code)
    /\ \E k \in Keys : tokenCache[1][k] # <<>>

\* the tokens of a source text, lexed from its start
RECURSIVE LexFrom(_)
LexFrom(lx) ==
    IF lx.index >= Len(lx.buffer) THEN <<>>
    ELSE LET tok == NextToken(lx)
         IN  <<tok>> \o LexFrom(Advance(lx, tok))

Lex(code) == LexFrom([compile EXCEPT !.buffer = code])

Significant(toks) == SelectSeq(toks, LAMBDA t : t.type \notin {"whitespace", "eol"})

\* C10: after a call that parsed, the tokens cached for its file are the
\* tokens fed to the parser in that call, in source order: the tokens of the
\* source text without whitespace and line ends, all of them when the parse
\* succeeded and up to the one the parser refused when it failed; nothing of
\* an earlier parse of the file remains.
C10_TokenCacheIsTokensFed ==
    Parsed =>
        LET all == Significant(Lex(last.source))
        IN  /\ Cached = last.fed
            /\ \A k \in 1..Len(Cached) : Cached[k].type \notin {"whitespace", "eol"}
            /\ Len(Cached) <= Len(all)
            /\ Cached = SubSeq(all, 1, Len(Cached))
            /\ last.accepted => Cached = all
            /\ ~last.accepted => Cached # <<>>

\* a failed parse of a file of this instance that was parsed before, of
\* another text
C10_Witness ==
    /\ calls = 2 /\ Len(first) = 2 /\ Failed /\ ~last.accepted
    /\ \A p \in Instances, k \in Keys :
          codeCache[p][k] # null => (p = last.this /\ k = Key(last.file))

\* the tree of the last call: its nodes, and the children of its root
Tree == last.value.heap

Top == Tree[last.value.root].children

\* C5: a module definition whose body holds K statements gives a ModuleNode
\* with exactly K children, the nodes of those statements in source order,
\* each with the ModuleNode as its parent.
C5_ModuleChildren ==
    \A body \in Bodies :
        last.source = ModuleSource(body) =>
            /\ last.outcome = "returned"
            /\ Len(Top) = 1
            /\ Tree[Top[1]].className = "ModuleNode"
            /\ Tree[Top[1]].parent = last.value.root
            /\ Len(Tree[Top[1]].children) = Len(body)
            /\ \A k \in 1..Len(body) :
                  LET child == Tree[Tree[Top[1]].children[k]]
                  IN  /\ child.parent = Top[1]
                      /\ child.className = FormClass[body[k]]
                      /\ child.location.offset =
                            Len(ModuleHead) + Len(BodyText(SubSeq(body, 1, k - 1)))

\* a module of as many statements as the bound allows, no two of one kind
C5_Witness ==
    \E body \in Bodies :
        /\ Len(body) = MaxStatements
        /\ FormClass[body[1]] # FormClass[body[Len(body)]]
        /\ last.source = ModuleSource(body)
        /\ last.outcome = "returned"

\* text with the whitespace at its two ends taken off
IsTrimOf(t, text) ==
    \E a, b \in 0..Len(text) :
        /\ a + b <= Len(text)
        /\ t = SubSeq(text, a + 1, Len(text) - b)
        /\ \A k \in 1..a : text[k] \in {" ", "\t", "\n"}
        /\ \A k \in (Len(text) - b + 1)..Len(text) : text[k] \in {" ", "\t", "\n"}
        /\ t # <<>> => (t[1] \notin {" ", "\t", "\n"} /\ t[Len(t)] \notin {" ", "\t", "\n"})

\* C6: the node of a single-line comment has multiline false and the
\* comment's text without its leading and trailing whitespace; the node of a
\* multi-line comment has multiline true and exactly the text between the
\* delimiters, its whitespace and line breaks kept.
C6_CommentText ==
    /\ \A text \in LineTexts :
          last.source = LineComment(text) =>
              /\ last.outcome = "returned" /\ Len(Top) = 1
              /\ Tree[Top[1]].className = "CommentNode"
              /\ Tree[Top[1]].multiline = FALSE
              /\ IsTrimOf(Tree[Top[1]].text, text)
    /\ \A text \in BlockTexts :
          last.source = BlockComment(text) =>
              /\ last.outcome = "returned" /\ Len(Top) = 1
              /\ Tree[Top[1]].className = "CommentNode"
              /\ Tree[Top[1]].multiline = TRUE
              /\ Tree[Top[1]].text = text

\* a multi-line comment whose text starts with a blank and ends with a line break
C6_Witness ==
    \E text \in BlockTexts :
        /\ Len(text) = MaxText /\ text[1] = " " /\ text[Len(text)] = "\n"
        /\ last.source = BlockComment(text)
        /\ last.outcome = "returned"
        /\ Tree[Top[1]].text = text

\* C7: an include or use statement with a path free of > and of line breaks
\* is a token of its own that ends at the first > after the path, whatever
\* follows on the line, and the node built from it has the path as its file.
C7_InclusionEndsAtFirstCloser ==
    \A kw \in Keywords, path \in Paths, follower \in Followers :
        last.source = Inclusion(kw, path, follower) =>
            /\ last.fed # <<>>
            /\ last.fed[1].type = (IF Len(kw) = 3 THEN "use" ELSE "include")
            /\ last.fed[1].value = path
            /\ last.fed[1].size = Len(kw) + Len(path) + 3
            /\ last.outcome = "returned" =>
                  /\ Tree[Top[1]].className = (IF Len(kw) = 3 THEN "UseNode" ELSE "IncludeNode")
                  /\ Tree[Top[1]].file = path

\* C8: a modifier (none, or one of ! # * %), an identifier of the form
\* [A-Za-z_$][A-Za-z0-9_]* and an opening parenthesis, at the start of a
\* statement, are one actionCall token, and the ActionNode built from it has
\* the identifier as its name and the modifier as its modifier.
C8_ActionCallOfAnyIdentifier ==
    \A m \in Modified, id \in Identifiers :
        last.source = Call(m, id) =>
            /\ last.fed # <<>>
            /\ last.fed[1].type = "actionCall"
            /\ last.fed[1].value = Prefix(m) \o id
            /\ last.outcome = "returned"
            /\ Len(Top) = 1
            /\ Tree[Top[1]].className = "ActionNode"
            /\ Tree[Top[1]].name = id
            /\ Tree[Top[1]].modifier = Prefix(m)

\* C9: each of the operators < <= == != >= > && || between two operands is
\* one operator3 token whose text is the whole operator.
C9_ComparatorIsOneToken ==
    \A op \in Comparators :
        last.source = Comparison(op) =>
            /\ Len(Lex(last.source)) = 3
            /\ Lex(last.source)[2].type = "operator3"
            /\ Lex(last.source)[2].value = op
            /\ Len(last.fed) >= 2
            /\ last.fed[2] = Lex(last.source)[2]

\* C11: a Parser error raised when n >= 1 tokens are captured for the file
\* carries as lastTokens the final min(3, n) captured tokens in source order,
\* the last of them the token the parser refused.
C11_LastTokensAreTheFinalThree ==
    (last.outcome = "ParserError" /\ Len(Cached) >= 1) =>
        /\ Len(last.lastTokens) = Min({3, Len(Cached)})
        /\ last.lastTokens =
              SubSeq(Cached, Len(Cached) - Min({3, Len(Cached)}) + 1, Len(Cached))
        /\ last.lastTokens[Len(last.lastTokens)] = Cached[Len(Cached)]

\* the line of the failure, the lines of the source, the lines of the excerpt
FailingLine == last.location.line

SourceLines == split(last.source)

ExcerptLines == split(last.excerpt)

\* the lines of the excerpt that render a source line: they start with the
\* line number, a marker line starts with blanks
Rendered == SelectSeq(ExcerptLines, LAMBDA row : row # <<>> /\ row[1] \in Digit)

\* row renders line number n of the source: the number, zero-padded, ": "
\* and the text of the line
Renders(row, n) ==
    \E z \in 0..2 : row = times(z, "0") \o toString(n) \o <<":", " ">> \o SourceLines[n]

\* C12: for a failure on line L of a source of N lines the excerpt renders
\* exactly the lines max(1, L-3) through min(N, L+3), each prefixed with its
\* own line number.
C12_ExcerptWindow ==
    Failed =>
        /\ Len(Rendered) =
              Min({Len(SourceLines), FailingLine + 3}) - Max({1, FailingLine - 3}) + 1
        /\ \A k \in 1..Len(Rendered) :
              Renders(Rendered[k], Max({1, FailingLine - 3}) + k - 1)

\* the lines of the excerpt that are marker lines
Markers == { k \in 1..Len(ExcerptLines) : "^" \in Range(ExcerptLines[k]) }

\* the position of the first ^ of a marker line
FirstCaret(row) == Min({ p \in 1..Len(row) : row[p] = "^" })

\* C13: the excerpt of a failure on an existing line L holds exactly one
\* marker line, directly beneath the rendering of line L, with its first ^
\* in the text column of the character at location.column of that line.
C13_MarkerBeneathFailingLine ==
    (Failed /\ FailingLine \in 1..Len(SourceLines)) =>
        /\ Cardinality(Markers) = 1
        /\ \A k \in Markers :
              /\ k > 1
              /\ Renders(ExcerptLines[k - 1], FailingLine)
              /\ FirstCaret(ExcerptLines[k]) =
                    Len(ExcerptLines[k - 1]) - Len(SourceLines[FailingLine])
                        + last.location.column

\* the source cached for the file of the last call, on its instance
CachedSource == codeCache[last.this][Key(last.file)]

\* the line and the column of the character at 0-based offset o of text
LineOf(text, o) == 1 + Cardinality({ q \in 1..o : text[q] = "\n" })

ColumnOf(text, o) == o + 1 - Max({0} \cup { q \in 1..o : text[q] = "\n" })

\* the tokens of the cache whose text holds a character at (line, column)
Covering(line, column) ==
    { k \in 1..Len(Cached) :
        \E o \in Cached[k].offset..(Cached[k].offset + Cached[k].size - 1) :
            /\ LineOf(CachedSource, o) = line
            /\ ColumnOf(CachedSource, o) = column }

\* C14: getToken(column, line, file) returns the first cached token of file
\* whose text covers the position, on whichever line of the token the
\* position lies, and null exactly when no cached token covers it.
C14_GetTokenCoversPosition ==
    last.op = "getToken" =>
        IF Covering(last.args.line, last.args.column) = {}
        THEN last.result = <<>>
        ELSE last.result = <<Cached[Min(Covering(last.args.line, last.args.column))]>>

\* C15: findTokens(value, type, file) returns, in cache order, exactly the
\* cached tokens of file whose value equals the value given and whose kind
\* equals the type given, every cached token when neither is given (left at
\* null), and leaves the token cache as it was.
C15_FindTokensFilters ==
    last.op = "findTokens" =>
        /\ last.result =
              SelectSeq(Cached,
                        LAMBDA token :
                            /\ last.args.value # null => token.value = last.args.value
                            /\ last.args.type # NoType => token.type = last.args.type)
        /\ \A key \in Keys :
              IF codeCache[last.this][key] = null
              THEN tokenCache[last.this][key] = <<>>
              ELSE \E k \in 1..Len(first) :
                      /\ first[k].source = codeCache[last.this][key]
                      /\ first[k].seen.tokens = tokenCache[last.this][key]

\* C16: after any constructions with child lists and setChildren calls,
\* parent and children agree: a node has parent p exactly when it is an
\* element of p.children, no node is an element of the children of two
\* nodes, and a node that setChildren replaced no longer refers to the node
\* it was a child of.
C16_ParentAndChildrenAgree ==
    last.op \in {"Node", "setChildren"} =>
        /\ \A c, p \in 1..Len(Tree) :
              Tree[c].parent = p <=> c \in Range(Tree[p].children)
        /\ \A c, p, q \in 1..Len(Tree) :
              (c \in Range(Tree[p].children) /\ c \in Range(Tree[q].children)) => p = q

\* C17: after any parseAST calls on an instance, the result cache, the
\* source cache and the token cache of every file identifier describe one
\* parse, the most recent one of that identifier: the tokens are those of the
\* cached source text and the result is the tree of that text, and after a
\* parse that raised the result cache holds no tree of an earlier text.
C17_CachesDescribeOneParse ==
    \A p \in Instances, key \in Keys :
        IF codeCache[p][key] = null
        THEN tokenCache[p][key] = <<>> /\ cache[p][key] = NoTree
        ELSE \E k \in 1..Len(first) :
                /\ first[k].source = codeCache[p][key]
                /\ tokenCache[p][key] = first[k].seen.tokens
                /\ cache[p][key] = IF first[k].seen.outcome = "returned"
                                   THEN first[k].seen.value
                                   ELSE NoTree

=============================================================================
